---- MODULE Spec2Model ----
(***************************************************************************)
(* Model of app.py, the Google Sheets campaign updater: the Cell Writer    *)
(* (safe_update_cell), the Column Locator (get_column_index), the two      *)
(* Aggregators, the Alias Resolver, and the Orchestrator loop of main().   *)
(*                                                                         *)
(* Text.  A Python str is modelled as a sequence of tokens.  A token is    *)
(* either a whitespace character (" ") or a chunk of non-whitespace        *)
(* characters ("Calls", "Acme", "7"), so "Logged Calls" is                 *)
(* <<"Logged", " ", "Calls">> and " Acme " is <<" ", "Acme", " ">>.        *)
(* Python's None and pandas' NaN are the distinguished values None / NaN.  *)
(* Python's 0-based positions are kept 1-based here: data[1] of the code   *)
(* is data[2] of the model, and the code's "j + 1" is the model's index.   *)
(***************************************************************************)
EXTENDS Integers, Sequences, FiniteSets, TLC

VARIABLES
    \* the operator's inputs and the remote spreadsheet (the environment)
    credentials,        \* GOOGLE_CREDENTIALS_JSON is set
    update_type,        \* "CTC" or "Log type"
    day_index,          \* selectbox value - 1
    uploaded_files,     \* the uploaded CSV files, in upload order
    worksheet,          \* the target worksheet's values as get_all_values returns them
    settings_data,      \* the AhmedSettings sheet as get_all_records returns it
    \* the locals of main()
    pc,                 \* position of the run
    data,
    header_row,
    settings_df,
    file_idx,           \* position of the for loop over uploaded_files
    connects_target_df,
    target_columns,
    row_idx,            \* position of the for loop over connects_target_df
    camp_row_index,
    call_idx,           \* which safe_update_cell call of the row is next / running
    \* the locals of safe_update_cell()
    retry_count,
    \* what the environment observes
    written,            \* the cells update_cell has set on the remote sheet, with their values
    attempts,           \* update_cell invocations made by the running (or last) call
    waited,             \* seconds slept by the running (or last) call
    resp,               \* HTTP status answered to update_cell in the last step (0: none sent)
    call_status,        \* how the last safe_update_cell call stands
    file_status,        \* how the current (or last) file stands
    calls_in_file,      \* safe_update_cell calls made for the current (or last) file
    out,                \* the notices the last step emitted through st.*
    \* the argument and the result of a function applied on its own
    arg,
    ret

vars == <<credentials, update_type, day_index, uploaded_files, worksheet, settings_data,
          pc, data, header_row, settings_df, file_idx, connects_target_df,
          target_columns, row_idx, camp_row_index, call_idx, retry_count,
          written, attempts, waited, resp, call_status, file_status, calls_in_file,
          out, arg, ret>>

----------------------------------------------------------------------------
(* Values and text *)

\* Python's None where the code holds a row or column index or None: these
\* indexes are 1-based, and "if not camp_row_index" treats 0 and None alike
None == 0

\* pandas' missing value
NaN == <<"NaN">>

\* str.strip() removes these from both ends
IsSpace(c) == c \in {" ", "\t", "\n"}

RECURSIVE LStrip(_)
LStrip(s) == IF s # <<>> /\ IsSpace(Head(s)) THEN LStrip(Tail(s)) ELSE s

RECURSIVE RStrip(_)
RStrip(s) ==
    IF s # <<>> /\ IsSpace(s[Len(s)]) THEN RStrip(SubSeq(s, 1, Len(s) - 1)) ELSE s

\* cell.strip()
Strip(s) == RStrip(LStrip(s))

\* x in list
InSeq(x, s) == \E i \in DOMAIN s : s[i] = x

\* Series.dropna()
DropNa(s) == SelectSeq(s, LAMBDA v : v # NaN)

\* Series.unique(): first occurrences, in order
RECURSIVE UniqueFrom(_, _)
UniqueFrom(s, seen) ==
    IF s = <<>> THEN <<>>
    ELSE IF InSeq(Head(s), seen) THEN UniqueFrom(Tail(s), seen)
    ELSE <<Head(s)>> \o UniqueFrom(Tail(s), Append(seen, Head(s)))

Unique(s) == UniqueFrom(s, <<>>)

----------------------------------------------------------------------------
(* Column Locator *)

\* occurrences = [i for i, cell in enumerate(header_row) if cell.strip() == label],
\* as 1-based positions
RECURSIVE OccurrencesFrom(_, _, _)
OccurrencesFrom(label, hdr, i) ==
    IF i > Len(hdr) THEN <<>>
    ELSE (IF Strip(hdr[i]) = label THEN <<i>> ELSE <<>>)
         \o OccurrencesFrom(label, hdr, i + 1)

Occurrences(label, hdr) == OccurrencesFrom(label, hdr, 1)

\* variant of the result: the 0-based position of the occurrence (the + 1 left out)
get_column_index_zero_based(label, index, hdr) ==
    LET occurrences == Occurrences(label, hdr)
    IN  IF index < Len(occurrences) THEN occurrences[index + 1] - 1 ELSE None

\* get_column_index(label, index, header_row), for index >= 0 (main passes 0..4):
\* occurrences[index] + 1 if index < len(occurrences) else None
get_column_index(label, index, hdr) ==
    LET occurrences == Occurrences(label, hdr)
    IN  IF index < Len(occurrences) THEN occurrences[index + 1] ELSE None

----------------------------------------------------------------------------
(* Duration formatting *)

Digit(d) == <<"0", "1", "2", "3", "4", "5", "6", "7", "8", "9">>[d + 1]

\* str(n) for n >= 0
RECURSIVE Decimal(_)
Decimal(n) == IF n < 10 THEN <<Digit(n)>> ELSE Decimal(n \div 10) \o <<Digit(n % 10)>>

\* f"{n:02}": zero-padded to a width of at least two
Format02(n) == IF Len(Decimal(n)) < 2 THEN <<"0">> \o Decimal(n) ELSE Decimal(n)

\* variant of the format: the hours wrapped at a day
seconds_to_hms_clock(seconds) ==
    LET hours   == (seconds \div 3600) % 24
        minutes == (seconds % 3600) \div 60
        secs    == seconds % 60
    IN  Format02(hours) \o <<":">> \o Format02(minutes) \o <<":">> \o Format02(secs)

\* seconds_to_hms(seconds)
seconds_to_hms(seconds) ==
    LET hours   == seconds \div 3600
        minutes == (seconds % 3600) \div 60
        secs    == seconds % 60
    IN  Format02(hours) \o <<":">> \o Format02(minutes) \o <<":">> \o Format02(secs)

----------------------------------------------------------------------------
(* Alias Resolver *)

\* df[col].values of a frame [columns |-> <<names>>, rows |-> <<rows>>]
ColumnValues(df, c) == [r \in DOMAIN df.rows |-> df.rows[r][c]]

\* df[df[col] == name].index[0]: the first row holding name in column c
FirstRowWith(df, c, name) ==
    CHOOSE r \in DOMAIN df.rows :
        /\ df.rows[r][c] = name
        /\ \A q \in 1..(r - 1) : df.rows[q][c] # name

\* position of column 'Camp' (0: the frame has no such column, a KeyError)
CampColumn(df) ==
    IF \E c \in DOMAIN df.columns : df.columns[c] = "Camp"
    THEN CHOOSE c \in DOMAIN df.columns :
             /\ df.columns[c] = "Camp"
             /\ \A d \in 1..(c - 1) : df.columns[d] # "Camp"
    ELSE 0

\* the else branch: for col in settings_df.columns[1:] ...
RECURSIVE AliasScanColumns(_, _, _)
AliasScanColumns(df, campaign_name, c) ==
    IF c > Len(df.columns) THEN <<>>
    ELSE IF InSeq(campaign_name, ColumnValues(df, c))
    THEN LET row_index == FirstRowWith(df, c, campaign_name)
             alternate_names == Unique(DropNa(df.rows[row_index]))
         IN  SelectSeq(alternate_names, LAMBDA name : name # campaign_name)
    ELSE AliasScanColumns(df, campaign_name, c + 1)

\* variant of the resolver: the canonical branch returns the whole row (iloc[row_index]
\* for iloc[row_index, 1:])
find_alternate_campaign_name_whole_row(df, campaign_name) ==
    IF CampColumn(df) = 0 THEN [raised |-> TRUE, names |-> <<>>]
    ELSE IF InSeq(campaign_name, ColumnValues(df, CampColumn(df)))
    THEN LET row_index == FirstRowWith(df, CampColumn(df), campaign_name)
         IN  [raised |-> FALSE, names |-> Unique(DropNa(df.rows[row_index]))]
    ELSE [raised |-> FALSE, names |-> AliasScanColumns(df, campaign_name, 2)]

\* find_alternate_campaign_name_with_new_structure(settings_df, campaign_name):
\* [raised |-> a KeyError was raised, names |-> the list returned]
find_alternate_campaign_name_with_new_structure(df, campaign_name) ==
    IF CampColumn(df) = 0 THEN [raised |-> TRUE, names |-> <<>>]
    ELSE IF InSeq(campaign_name, ColumnValues(df, CampColumn(df)))
    THEN LET row_index == FirstRowWith(df, CampColumn(df), campaign_name)
         IN  [raised |-> FALSE,
              names  |-> Unique(DropNa(Tail(df.rows[row_index])))]
    ELSE [raised |-> FALSE, names |-> AliasScanColumns(df, campaign_name, 2)]

\* pd.DataFrame(settings_data): the columns are the keys of the records, so a
\* sheet without data rows gives a frame without columns
DataFrame(records) ==
    [columns |-> IF records.rows = <<>> THEN <<>> ELSE records.keys,
     rows    |-> records.rows]

----------------------------------------------------------------------------
(* Aggregators *)

\* code-point order of the tokens campaign names are made of (groupby sorts its keys)
Collation == <<" ", "ACME", "Acme", "Beta", "Corp", "Gamma", "INC">>

Rank(tok) == CHOOSE i \in DOMAIN Collation : Collation[i] = tok

RECURSIVE TextLess(_, _)
TextLess(a, b) ==
    IF b = <<>> THEN FALSE
    ELSE IF a = <<>> THEN TRUE
    ELSE IF Head(a) = Head(b) THEN TextLess(Tail(a), Tail(b))
    ELSE Rank(Head(a)) < Rank(Head(b))

\* the sorted group keys of groupby
RECURSIVE SortedKeys(_)
SortedKeys(S) ==
    IF S = {} THEN <<>>
    ELSE LET least == CHOOSE k \in S : \A o \in S \ {k} : TextLess(k, o)
         IN  <<least>> \o SortedKeys(S \ {least})

RECURSIVE Sum(_)
Sum(s) == IF s = <<>> THEN 0 ELSE Head(s) + Sum(Tail(s))

RECURSIVE Gcd(_, _)
Gcd(a, b) == IF b = 0 THEN a ELSE Gcd(b, a % b)

\* variant of the mean: the integer quotient of the sum by the count
MeanFloor(s) == [num |-> Sum(s) \div Len(s), den |-> 1]

\* the mean of a non-empty list of non-negative integers, as an exact fraction
Mean(s) ==
    LET g == Gcd(Sum(s), Len(s))
    IN  [num |-> Sum(s) \div g, den |-> Len(s) \div g]

\* the values of column col in the rows of one group
GroupValues(rows, key, by, col) ==
    LET grp == SelectSeq(rows, LAMBDA r : r[by] = key)
    IN  [i \in DOMAIN grp |-> grp[i][col]]

\* load_and_process_csv(file): [raised |-> an exception was raised, df |-> the frame]
load_and_process_csv(file) ==
    IF ~({"Campaign", "Calls", "Connects", "Calls to Connect", "Abandoned"}
            \subseteq file.columns)
    THEN [raised |-> TRUE, df |-> <<>>]
    ELSE LET kept == SelectSeq(file.rows, LAMBDA r : r["Campaign"] # NaN)
             keys == SortedKeys({kept[i]["Campaign"] : i \in DOMAIN kept})
         IN  [raised |-> FALSE,
              df |-> [k \in DOMAIN keys |->
                        [Camp      |-> keys[k],
                         Calls     |-> Sum(GroupValues(kept, keys[k], "Campaign", "Calls")),
                         Connects  |-> Sum(GroupValues(kept, keys[k], "Campaign", "Connects")),
                         CTC       |-> Mean(GroupValues(kept, keys[k], "Campaign",
                                                        "Calls to Connect")),
                         Abandoned |-> Sum(GroupValues(kept, keys[k], "Campaign",
                                                       "Abandoned"))]]]

\* variant of the Log-type aggregator: dropna(subset=['Current campaign']) only, a
\* missing length counted as 0 seconds
process_campaign_data_by_name_keeps_null_lengths(file) ==
    IF ~({"Current campaign", "Recording Length (Seconds)"} \subseteq file.columns)
    THEN [raised |-> TRUE, df |-> <<>>]
    ELSE LET kept == SelectSeq(file.rows, LAMBDA r : r["Current campaign"] # NaN)
             secs == [i \in DOMAIN kept |->
                         [kept[i] EXCEPT !["Recording Length (Seconds)"] = @.v]]
             keys == SortedKeys({kept[i]["Current campaign"] : i \in DOMAIN kept})
         IN  IF \E i \in DOMAIN kept : kept[i]["Recording Length (Seconds)"].k = "text"
             THEN [raised |-> TRUE, df |-> <<>>]
             ELSE [raised |-> FALSE,
                   df |-> [k \in DOMAIN keys |->
                       LET total == Sum(GroupValues(secs, keys[k], "Current campaign",
                                                    "Recording Length (Seconds)"))
                       IN  ("Camp" :> keys[k])
                           @@ ("Recording_Length_Seconds" :> total)
                           @@ ("Logged Calls" :>
                                  Len(GroupValues(secs, keys[k], "Current campaign",
                                                  "Current campaign")))
                           @@ ("Dial Time" :> seconds_to_hms(total))]]

\* a 'Recording Length (Seconds)' cell: [k |-> "int" | "nan" | "text", v |-> the integer]
\* process_campaign_data_by_name(file): astype(int) raises on a cell that is no number
process_campaign_data_by_name(file) ==
    IF ~({"Current campaign", "Recording Length (Seconds)"} \subseteq file.columns)
    THEN [raised |-> TRUE, df |-> <<>>]
    ELSE LET kept == SelectSeq(file.rows,
                         LAMBDA r : /\ r["Current campaign"] # NaN
                                    /\ r["Recording Length (Seconds)"].k # "nan")
             secs == [i \in DOMAIN kept |->
                         [kept[i] EXCEPT !["Recording Length (Seconds)"] = @.v]]
             keys == SortedKeys({kept[i]["Current campaign"] : i \in DOMAIN kept})
         IN  IF \E i \in DOMAIN kept : kept[i]["Recording Length (Seconds)"].k = "text"
             THEN [raised |-> TRUE, df |-> <<>>]
             ELSE [raised |-> FALSE,
                   df |-> [k \in DOMAIN keys |->
                       LET total == Sum(GroupValues(secs, keys[k], "Current campaign",
                                                    "Recording Length (Seconds)"))
                       IN  ("Camp" :> keys[k])
                           @@ ("Recording_Length_Seconds" :> total)
                           @@ ("Logged Calls" :>
                                  Len(GroupValues(secs, keys[k], "Current campaign",
                                                  "Current campaign")))
                           @@ ("Dial Time" :> seconds_to_hms(total))]]

----------------------------------------------------------------------------
(* Row Locator: lines 137-153 of main() *)

\* variant of the scan: the last matching row wins (no break)
RECURSIVE ScanFromKeepsLast(_, _, _)
ScanFromKeepsLast(rows, name, j) ==
    IF j > Len(rows) THEN None
    ELSE IF ScanFromKeepsLast(rows, name, j + 1) # None
    THEN ScanFromKeepsLast(rows, name, j + 1)
    ELSE IF Strip(rows[j][1]) = name THEN j
    ELSE None

\* for j, row_data in enumerate(data): if row_data[0].strip() == name: j + 1; break
RECURSIVE ScanFrom(_, _, _)
ScanFrom(rows, name, j) ==
    IF j > Len(rows) THEN None
    ELSE IF Strip(rows[j][1]) = name THEN j
    ELSE ScanFrom(rows, name, j + 1)

ScanRows(rows, name) == ScanFrom(rows, name, 1)

\* for alt_name in alternate_names: scan; if camp_row_index: break
\* [index |-> the row found or None, alt |-> the alias that found it]
RECURSIVE ScanAlternates(_, _)
ScanAlternates(rows, alternate_names) ==
    IF alternate_names = <<>> THEN [index |-> None, alt |-> <<>>]
    ELSE IF ScanRows(rows, Head(alternate_names)) # None
    THEN [index |-> ScanRows(rows, Head(alternate_names)), alt |-> Head(alternate_names)]
    ELSE ScanAlternates(rows, Tail(alternate_names))

\* [raised |-> the resolver raised, index |-> camp_row_index, via |-> "exact" | "alias" |
\*  "none", alt |-> alt_name]
RowLocator(rows, df, camp_name) ==
    IF ScanRows(rows, camp_name) # None
    THEN [raised |-> FALSE, index |-> ScanRows(rows, camp_name), via |-> "exact",
          alt |-> <<>>]
    ELSE LET found == find_alternate_campaign_name_with_new_structure(df, camp_name)
             hit   == ScanAlternates(rows, found.names)
         IN  IF found.raised
             THEN [raised |-> TRUE, index |-> None, via |-> "none", alt |-> <<>>]
             ELSE [raised |-> FALSE, index |-> hit.index,
                   via |-> IF hit.index # None THEN "alias" ELSE "none",
                   alt |-> hit.alt]

----------------------------------------------------------------------------
(* Cell Writer: the pieces of safe_update_cell() *)

\* def safe_update_cell(..., max_retries=7)
max_retries == 7

\* variant of the counter's start: the count of the previous call is kept
RetryCountKept(previous) == previous

\* retry_count = 0 at the start of a call, whatever the previous call left
InitialRetryCount(previous) == 0

\* variant of the loop test: one pass too many (<= for <)
LoopConditionInclusive(count) == count <= max_retries

\* while retry_count < max_retries
LoopCondition(count) == count < max_retries

\* variant of the count: the rate limits of a call are not counted
RetryCountNotCounted(count) == count

\* retry_count += 1
NextRetryCount(count) == count + 1

\* worksheet.update_cell returned without raising
Succeeded(status) == status = 200

\* variant of the status test: every error status is taken for a rate limit
IsRateLimitAnyError(status) == status >= 400

\* e.response.status_code == 429
IsRateLimit(status) == status = 429

\* variant of the wait: 2 * retry_count, a linear backoff
WaitTimeLinear(count) == 2 * count

\* wait_time = 2 ** retry_count
WaitTime(count) == 2 ^ count

\* what the remote API can answer to one update_cell request
Responses == {200, 429, 500}

----------------------------------------------------------------------------
(* Orchestrator: the pieces of main() *)

\* the text of a label written as a Python literal
Text(s) ==
    CASE s = "Logged Calls" -> <<"Logged", " ", "Calls">>
      [] s = "Dial Time"    -> <<"Dial", " ", "Time">>
      [] OTHER              -> <<s>>

\* update_columns
UpdateColumns(type) ==
    IF type = "CTC" THEN <<"Calls", "CTC", "Abandoned", "Connects">>
    ELSE <<"Logged Calls", "Dial Time">>

\* the aggregator of the selected mode
Aggregate(type, file) ==
    IF type = "CTC" THEN load_and_process_csv(file)
    ELSE process_campaign_data_by_name(file)

\* variant of the lookup: always the first occurrence of each label, whatever the day
TargetColumnsFirstDay(type, index, hdr) ==
    [col \in {UpdateColumns(type)[i] : i \in DOMAIN UpdateColumns(type)} |->
        get_column_index(Text(col), 0, hdr)]

\* target_columns = {col: get_column_index(col, day_index, header_row) for col in ...}
TargetColumns(type, index, hdr) ==
    [col \in {UpdateColumns(type)[i] : i \in DOMAIN UpdateColumns(type)} |->
        get_column_index(Text(col), index, hdr)]

\* variant of the test: the file is given up only when no column at all is found
HasUnresolvedAll(columns) == \A col \in DOMAIN columns : columns[col] = None

\* if None in target_columns.values()
HasUnresolved(columns) == \E col \in DOMAIN columns : columns[col] = None

\* variant of the calls: made in the order of update_columns
CellCallsInUpdateOrder(type, columns) == UpdateColumns(type)

\* the safe_update_cell calls made for one located row, in the order of lines 157-164
CellCalls(type, columns) ==
    IF type = "CTC" THEN <<"Calls", "Connects", "CTC", "Abandoned">>
    ELSE <<"Logged Calls">>
         \o (IF "Dial Time" \in DOMAIN columns THEN <<"Dial Time">> ELSE <<>>)

\* a notice shown through st.write / info / success / warning / error
Notice(level, msg, n, text) == [level |-> level, msg |-> msg, n |-> n, text |-> text]

HasNotice(notices, level, msg) ==
    \E i \in DOMAIN notices : notices[i].level = level /\ notices[i].msg = msg

inputs == <<credentials, update_type, day_index, uploaded_files, worksheet, settings_data>>

loaded == <<data, header_row, settings_df>>

standalone == <<arg, ret>>

CurrentFile == uploaded_files[file_idx]

CurrentRow == connects_target_df[row_idx]

\* the for loop over uploaded_files moves on (or ends) after the current file
LeaveFile(status, notices) ==
    /\ file_status' = status
    /\ file_idx' = file_idx + 1
    /\ pc' = IF file_idx < Len(uploaded_files) THEN "file" ELSE "done"
    /\ out' = notices

\* variant of the handler: the try statement around the whole for loop, so that an
\* exception ends the run
ExceptHandlerAroundLoop(notices) ==
    /\ file_status' = "error"
    /\ file_idx' = Len(uploaded_files) + 1
    /\ pc' = "done"
    /\ out' = notices \o <<Notice("error", "An error occurred while processing",
                                  0, CurrentFile.name)>>

\* except Exception as e: st.error(...), then the next file
ExceptHandler(notices) ==
    LeaveFile("error", notices \o <<Notice("error", "An error occurred while processing",
                                           0, CurrentFile.name)>>)

\* variant of the row loop: it stops at the first row it has dealt with
NextRowBreaks(notices) ==
    /\ row_idx' = row_idx + 1
    /\ LeaveFile("finished", notices)

\* the for loop over connects_target_df moves on, or ends and with it the file
NextRow(notices) ==
    IF row_idx < Len(connects_target_df)
    THEN /\ row_idx' = row_idx + 1
         /\ pc' = "row"
         /\ out' = notices
         /\ UNCHANGED <<file_idx, file_status>>
    ELSE /\ row_idx' = row_idx + 1
         /\ LeaveFile("finished", notices)

\* variant of the end of a row: st.success only when the last call did not give up
ReturnToRowUnlessGaveUp(notices) ==
    IF call_idx < Len(CellCalls(update_type, target_columns))
    THEN /\ call_idx' = call_idx + 1
         /\ pc' = "call"
         /\ out' = notices
         /\ UNCHANGED <<row_idx, file_idx, file_status>>
    ELSE /\ call_idx' = call_idx
         /\ NextRow(IF HasNotice(notices, "error", "Max retries reached")
                    THEN notices
                    ELSE notices \o <<Notice("success", "Updated", 0, CurrentRow["Camp"])>>)

\* safe_update_cell returned: the next call of the row, or st.success and the next row
ReturnToRow(notices) ==
    IF call_idx < Len(CellCalls(update_type, target_columns))
    THEN /\ call_idx' = call_idx + 1
         /\ pc' = "call"
         /\ out' = notices
         /\ UNCHANGED <<row_idx, file_idx, file_status>>
    ELSE /\ call_idx' = call_idx
         /\ NextRow(notices \o <<Notice("success", "Updated", 0, CurrentRow["Camp"])>>)

----------------------------------------------------------------------------
(* The run *)

\* variant of get_google_sheet_client: the client is built without the test of the
\* environment variable
CredentialsMissingIgnored(present) == FALSE

\* if not credentials_json: raise ValueError(...)
CredentialsMissing(present) == ~present

\* if st.button("Execute") and uploaded_files: lines 110-117
Execute ==
    /\ pc = "ready"
    /\ IF uploaded_files = <<>>
       THEN pc' = "done" /\ UNCHANGED <<loaded, file_idx>>
       ELSE IF CredentialsMissing(credentials) \/ Len(worksheet) < 2
       THEN pc' = "crashed" /\ UNCHANGED <<loaded, file_idx>>
       ELSE /\ data' = worksheet
            /\ header_row' = worksheet[2]
            /\ settings_df' = DataFrame(settings_data)
            /\ file_idx' = 1
            /\ pc' = "file"
    /\ out' = <<>>
    /\ UNCHANGED <<inputs, standalone, connects_target_df, target_columns, row_idx,
                   camp_row_index, call_idx, retry_count, written, attempts, waited,
                   resp, call_status, file_status, calls_in_file>>

\* one iteration of the for loop over uploaded_files, up to the row loop: lines 119-135
StartFile ==
    /\ pc = "file"
    /\ calls_in_file' = 0
    /\ LET processing == <<Notice("write", "Processing file", 0, CurrentFile.name)>>
           agg        == Aggregate(update_type, CurrentFile)
           columns    == TargetColumns(update_type, day_index, header_row)
       IN  IF agg.raised
           THEN /\ ExceptHandler(processing)
                /\ UNCHANGED <<connects_target_df, target_columns, row_idx>>
           ELSE /\ connects_target_df' = agg.df
                /\ target_columns' = columns
                /\ IF HasUnresolved(columns)
                   THEN /\ LeaveFile("invalid day",
                               processing \o <<Notice("error", "Invalid day index", 0, <<>>)>>)
                        /\ UNCHANGED row_idx
                   ELSE IF agg.df = <<>>
                   THEN /\ LeaveFile("finished", processing)
                        /\ UNCHANGED row_idx
                   ELSE /\ row_idx' = 1
                        /\ pc' = "row"
                        /\ file_status' = "running"
                        /\ out' = processing
                        /\ UNCHANGED file_idx
    /\ resp' = 0
    /\ UNCHANGED <<inputs, loaded, standalone, camp_row_index, call_idx, retry_count,
                   written, attempts, waited, call_status>>

\* one iteration of the for loop over the report rows, up to the first call: lines 136-155, 166-167
ProcessRow ==
    /\ pc = "row"
    /\ LET camp_name == CurrentRow["Camp"]
           located   == RowLocator(data, settings_df, camp_name)
       IN  /\ camp_row_index' = located.index
           /\ IF located.raised
              THEN /\ ExceptHandler(<<>>)
                   /\ UNCHANGED <<row_idx, call_idx>>
              ELSE IF located.index # None
              THEN /\ call_idx' = 1
                   /\ pc' = "call"
                   /\ out' = IF located.via = "alias"
                             THEN <<Notice("info", "Using alternate name", 0, located.alt)>>
                             ELSE <<>>
                   /\ UNCHANGED <<row_idx, file_idx, file_status>>
              ELSE /\ NextRow(<<Notice("warning", "not found in the sheet", 0, camp_name)>>)
                   /\ UNCHANGED call_idx
    /\ resp' = 0
    /\ UNCHANGED <<inputs, loaded, standalone, connects_target_df, target_columns,
                   retry_count, written, attempts, waited, call_status, calls_in_file>>

\* safe_update_cell is called for the next metric of the row: lines 25-27
EnterCall ==
    /\ pc = "call"
    /\ retry_count' = InitialRetryCount(retry_count)
    /\ attempts' = 0
    /\ waited' = 0
    /\ resp' = 0
    /\ calls_in_file' = calls_in_file + 1
    /\ IF LoopCondition(InitialRetryCount(retry_count))
       THEN /\ call_status' = "active"
            /\ pc' = "attempt"
            /\ out' = <<>>
            /\ UNCHANGED <<call_idx, row_idx, file_idx, file_status>>
       ELSE /\ call_status' = "exhausted"
            /\ ReturnToRow(<<Notice("error", "Max retries reached", 0, <<>>)>>)
    /\ UNCHANGED <<inputs, loaded, standalone, connects_target_df, target_columns,
                   camp_row_index, written>>

\* the cell and the value of the running call
CallColumn == CellCalls(update_type, target_columns)[call_idx]

CallCell == <<camp_row_index, target_columns[CallColumn]>>

CallValue == CurrentRow[CallColumn]

\* one pass of the while loop: update_cell is sent and answered with status: lines 28-39
Attempt(status) ==
    /\ pc = "attempt"
    /\ attempts' = attempts + 1
    /\ resp' = status
    /\ IF Succeeded(status)
       THEN /\ written' = (CallCell :> CallValue) @@ written
            /\ call_status' = "returned"
            /\ ReturnToRow(<<>>)
            /\ UNCHANGED <<retry_count, waited>>
       ELSE IF IsRateLimit(status)
       THEN /\ retry_count' = NextRetryCount(retry_count)
            /\ waited' = waited + WaitTime(NextRetryCount(retry_count))
            /\ UNCHANGED written
            /\ LET warning == <<Notice("warning", "Rate limit hit",
                                       WaitTime(NextRetryCount(retry_count)), <<>>)>>
               IN  IF LoopCondition(NextRetryCount(retry_count))
                   THEN /\ call_status' = "active"
                        /\ pc' = "attempt"
                        /\ out' = warning
                        /\ UNCHANGED <<call_idx, row_idx, file_idx, file_status>>
                   ELSE /\ call_status' = "exhausted"
                        /\ ReturnToRow(warning \o
                               <<Notice("error", "Max retries reached", 0, <<>>)>>)
       ELSE /\ call_status' = "raised"
            /\ ExceptHandler(<<>>)
            /\ UNCHANGED <<retry_count, waited, written, call_idx, row_idx>>
    /\ UNCHANGED <<inputs, loaded, standalone, connects_target_df, target_columns,
                   camp_row_index, calls_in_file>>

----------------------------------------------------------------------------
(* Inputs of the run *)

\* at most this many files are uploaded
MaxFiles == 2

\* the day selector offers 1..5; days beyond the header's occurrences all behave alike
MaxDayIndex == 1

Acme == <<"Acme">>

AcmeCorp == <<"Acme", " ", "Corp">>

AcmeInc == <<"ACME", " ", "INC">>

Beta == <<"Beta">>

Gamma == <<"Gamma">>

\* header rows: two days of both modes' labels, some cells padded; and one whose
\* second day lacks "Abandoned" and "Dial Time"
HeaderRows ==
    { << <<"Camp">>, <<" ", "Calls", " ">>, <<"Connects">>, <<"CTC">>, <<"Abandoned">>,
         <<"Logged", " ", "Calls">>, <<"Dial", " ", "Time", " ">>,
         <<"Calls">>, <<"Connects", " ">>, <<"CTC">>, <<"Abandoned">>,
         <<" ", "Logged", " ", "Calls">>, <<"Dial", " ", "Time">> >>,
      << <<"Camp">>, <<"Calls">>, <<"Connects">>, <<"CTC">>, <<"Abandoned">>,
         <<"Logged", " ", "Calls">>, <<"Dial", " ", "Time">>,
         <<"Calls">>, <<"Connects">>, <<"CTC">>, <<"Logged", " ", "Calls">> >> }

\* first columns of the sheet (the cell of row 2 is the header's)
FirstColumns ==
    { << <<"Report">>, <<>>, Acme, <<" ", "Beta", " ">>, Acme >>,
      << <<"Report">>, <<>>, AcmeInc, Beta >>,
      << <<" ">>, <<>>, Beta >> }

\* get_all_values(): rows of equal width; row 2 is the header row
Sheet(first, hdr) ==
    [r \in DOMAIN first |->
        IF r = 2 THEN hdr
        ELSE [c \in DOMAIN hdr |-> IF c = 1 THEN first[r] ELSE <<>>]]

Worksheets ==
    {Sheet(first, hdr) : first \in FirstColumns, hdr \in HeaderRows}
    \cup { << <<<<"Report">>>> >> }

\* get_all_records() of AhmedSettings: empty cells come as ''
SettingsSheets ==
    { [keys |-> <<"Camp", "Alt1", "Alt2">>,
       rows |-> << <<Acme, AcmeCorp, AcmeInc>>, <<Gamma, <<>>, <<>> >> >>],
      [keys |-> <<"Camp", "Alt1", "Alt2">>, rows |-> <<>>] }

CtcRow(campaign, calls, connects, ctc, abandoned) ==
    ("Campaign" :> campaign) @@ ("Calls" :> calls) @@ ("Connects" :> connects)
    @@ ("Calls to Connect" :> ctc) @@ ("Abandoned" :> abandoned)

LogRow(campaign, kind, seconds) ==
    ("Current campaign" :> campaign)
    @@ ("Recording Length (Seconds)" :> [k |-> kind, v |-> seconds])

CtcColumns == {"Campaign", "Calls", "Connects", "Calls to Connect", "Abandoned"}

LogColumns == {"Current campaign", "Recording Length (Seconds)"}

\* the CSV files an operator may upload
SampleFiles ==
    << [name |-> "ctc_a.csv", columns |-> CtcColumns,
        rows |-> << CtcRow(Acme, 10, 4, 3, 1), CtcRow(NaN, 5, 5, 5, 5),
                    CtcRow(Acme, 20, 6, 4, 2) >>],
       [name |-> "ctc_b.csv", columns |-> CtcColumns,
        rows |-> << CtcRow(Gamma, 7, 2, 5, 0), CtcRow(AcmeCorp, 8, 3, 2, 1) >>],
       [name |-> "log_a.csv", columns |-> LogColumns,
        rows |-> << LogRow(Beta, "int", 3600), LogRow(Acme, "int", 61),
                    LogRow(Acme, "nan", 0), LogRow(NaN, "int", 5),
                    LogRow(Acme, "int", 3600) >>],
       [name |-> "log_bad.csv", columns |-> LogColumns,
        rows |-> << LogRow(Acme, "text", 0) >>] >>

Uploads ==
    UNION {[1..n -> {SampleFiles[i] : i \in DOMAIN SampleFiles}] : n \in 0..MaxFiles}

\* no function is applied on its own during a run
StandaloneIdle == arg = <<>> /\ ret = <<>>

\* the locals and the observations before anything ran
InitLocals ==
    /\ data = <<>>
    /\ header_row = <<>>
    /\ settings_df = [columns |-> <<>>, rows |-> <<>>]
    /\ file_idx = 0
    /\ connects_target_df = <<>>
    /\ target_columns = <<>>
    /\ row_idx = 0
    /\ camp_row_index = None
    /\ call_idx = 0
    /\ retry_count = 0
    /\ written = <<>>
    /\ attempts = 0
    /\ waited = 0
    /\ resp = 0
    /\ call_status = "none"
    /\ file_status = "none"
    /\ calls_in_file = 0
    /\ out = <<>>

\* the state when Execute is pressed
Init ==
    /\ credentials \in BOOLEAN
    /\ update_type \in {"CTC", "Log type"}
    /\ day_index \in 0..MaxDayIndex
    /\ uploaded_files \in Uploads
    /\ worksheet \in Worksheets
    /\ settings_data \in SettingsSheets
    /\ pc = "ready"
    /\ InitLocals
    /\ StandaloneIdle

Next ==
    \/ Execute
    \/ StartFile
    \/ ProcessRow
    \/ EnterCall
    \/ \E status \in Responses : Attempt(status)

Spec == Init /\ [][Next]_vars

\* runs of at most MaxFairFiles uploaded files with the second day selected, which
\* the shorter header row lacks
MaxFairFiles == 1

FairInit ==
    /\ credentials \in BOOLEAN
    /\ update_type \in {"CTC", "Log type"}
    /\ day_index = 1
    /\ uploaded_files
          \in UNION {[1..n -> {SampleFiles[i] : i \in DOMAIN SampleFiles}] :
                        n \in 0..MaxFairFiles}
    /\ worksheet \in Worksheets
    /\ settings_data \in SettingsSheets
    /\ pc = "ready"
    /\ InitLocals
    /\ StandaloneIdle

\* the interpreter goes on to its next statement, and every update_cell request is
\* answered (with success, a rate limit or another error)
FairSpec == FairInit /\ [][Next]_vars /\ WF_vars(Next)

----------------------------------------------------------------------------
(* The functions applied on their own, to arguments drawn from bounded sets *)

\* everything of a run, which stands still while a function is applied on its own
run == <<inputs, loaded, file_idx, connects_target_df, target_columns, row_idx,
         camp_row_index, call_idx, retry_count, written, attempts, waited, resp,
         call_status, file_status, calls_in_file, out>>

NoRun ==
    /\ credentials = FALSE
    /\ update_type = "CTC"
    /\ day_index = 0
    /\ uploaded_files = <<>>
    /\ worksheet = <<>>
    /\ settings_data = [keys |-> <<>>, rows |-> <<>>]
    /\ InitLocals

SeqsUpTo(S, n) == UNION {[1..k -> S] : k \in 0..n}

\* get_column_index: header rows of up to MaxHeaderLen cells, day indexes 0..MaxOccurrence
MaxHeaderLen == 4

MaxOccurrence == 2

HeaderCells == {<<"Calls">>, <<" ", "Calls", " ">>, <<"CTC">>, <<>>}

InitColumn ==
    /\ NoRun
    /\ pc = "get_column_index"
    /\ arg \in [label : {<<"Calls">>, <<"CTC">>},
                index : 0..MaxOccurrence,
                header_row : SeqsUpTo(HeaderCells, MaxHeaderLen)]
    /\ ret = <<>>

ApplyColumn ==
    /\ pc = "get_column_index"
    /\ ret' = get_column_index(arg.label, arg.index, arg.header_row)
    /\ pc' = "returned"
    /\ UNCHANGED <<arg, run>>

SpecColumn == InitColumn /\ [][ApplyColumn]_vars

\* seconds_to_hms: whole hours 0..MaxHours plus minutes and seconds at their edges
MaxHours == 100

InitHms ==
    /\ NoRun
    /\ pc = "seconds_to_hms"
    /\ arg \in {h * 3600 + m * 60 + sec :
                   h \in 0..MaxHours, m \in {0, 1, 9, 10, 59}, sec \in {0, 1, 9, 10, 59}}
    /\ ret = <<>>

ApplyHms ==
    /\ pc = "seconds_to_hms"
    /\ ret' = seconds_to_hms(arg)
    /\ pc' = "returned"
    /\ UNCHANGED <<arg, run>>

SpecHms == InitHms /\ [][ApplyHms]_vars

\* the Alias Resolver: alias tables of up to MaxAliasRows rows of three columns
MaxAliasRows == 2

AliasColumns == <<"Camp", "Alt1", "Alt2">>

AliasValues == {Acme, AcmeCorp, NaN}

\* the table of the specification's example
ExampleTable == << <<Acme, AcmeCorp, AcmeInc>> >>

AliasTables ==
    SeqsUpTo([1..3 -> AliasValues], MaxAliasRows) \cup {ExampleTable}

InitAlias ==
    /\ NoRun
    /\ pc = "find_alternate_campaign_name"
    /\ arg \in [settings_df : {[columns |-> AliasColumns, rows |-> t] : t \in AliasTables},
                campaign_name : {Acme, AcmeCorp, AcmeInc}]
    /\ ret = <<>>

ApplyAlias ==
    /\ pc = "find_alternate_campaign_name"
    /\ ret' = find_alternate_campaign_name_with_new_structure(arg.settings_df,
                                                              arg.campaign_name)
    /\ pc' = "returned"
    /\ UNCHANGED <<arg, run>>

SpecAlias == InitAlias /\ [][ApplyAlias]_vars

\* the Row Locator: sheets of up to MaxSheetRows rows
MaxSheetRows == 3

FirstCells == {Acme, <<" ", "Acme", " ">>, AcmeCorp, AcmeInc, <<>>}

LocatorFrames ==
    { [columns |-> AliasColumns, rows |-> ExampleTable],
      [columns |-> AliasColumns,
       rows |-> << <<Beta, AcmeInc, AcmeInc>>, <<Acme, <<>>, Beta>>,
                   <<Gamma, AcmeCorp, Acme>> >>],
      DataFrame([keys |-> AliasColumns, rows |-> <<>>]) }

InitLocator ==
    /\ NoRun
    /\ pc = "row_locator"
    /\ arg \in [data : SeqsUpTo({<<cell>> : cell \in FirstCells}, MaxSheetRows),
                settings_df : LocatorFrames,
                camp_name : {Acme, AcmeCorp, Beta, <<" ", "Acme">>}]
    /\ ret = <<>>

ApplyLocator ==
    /\ pc = "row_locator"
    /\ ret' = RowLocator(arg.data, arg.settings_df, arg.camp_name)
    /\ pc' = "returned"
    /\ UNCHANGED <<arg, run>>

SpecLocator == InitLocator /\ [][ApplyLocator]_vars

\* the Aggregators: CSV files of up to MaxCsvRows rows, of either mode's columns
MaxCsvRows == 3

CsvCampaigns == {Acme, Beta, NaN}

CtcRows ==
    {CtcRow(campaign, calls, 3, ctc, 5) :
        campaign \in CsvCampaigns, calls \in {1, 2}, ctc \in {1, 2}}

LogRows ==
    {LogRow(campaign, cell.k, cell.v) :
        campaign \in CsvCampaigns,
        cell \in {[k |-> "int", v |-> 61], [k |-> "int", v |-> 3600],
                  [k |-> "nan", v |-> 0], [k |-> "text", v |-> 0]}}

CsvFiles ==
    {[name |-> "ctc.csv", columns |-> CtcColumns, rows |-> rows] :
        rows \in SeqsUpTo(CtcRows, MaxCsvRows)}
    \cup {[name |-> "log.csv", columns |-> LogColumns, rows |-> rows] :
        rows \in SeqsUpTo(LogRows, MaxCsvRows)}

InitAggregate ==
    /\ NoRun
    /\ pc = "aggregate"
    /\ arg \in [type : {"CTC", "Log type"}, file : CsvFiles]
    /\ ret = <<>>

ApplyAggregate ==
    /\ pc = "aggregate"
    /\ ret' = Aggregate(arg.type, arg.file)
    /\ pc' = "returned"
    /\ UNCHANGED <<arg, run>>

SpecAggregate == InitAggregate /\ [][ApplyAggregate]_vars

----------------------------------------------------------------------------
(* Properties of the Cell Writer *)

\* the last step was an update_cell request that ended its safe_update_cell call
\* by exhausting the retries
JustExhausted == resp = 429 /\ call_status = "exhausted"

\* C1: a call whose every attempt is answered 429 makes exactly 7 attempts: after
\* fewer than 7 rate-limit answers the call is still running and about to attempt
\* again, the 7th ends it, no attempt is ever made with 7 already made, the
\* "Max retries reached" error is shown, and control goes on in main() (the next
\* call, the next row, the next file or the end) without the file's except branch.
C1_SevenAttemptsThenGiveUp ==
    /\ pc = "attempt" => attempts < 7 /\ attempts = retry_count
    /\ (resp = 429 /\ attempts < 7) => call_status = "active" /\ pc = "attempt"
    /\ (resp = 429 /\ attempts >= 7) => call_status = "exhausted"
    /\ JustExhausted =>
          /\ attempts = 7
          /\ retry_count = 7
          /\ HasNotice(out, "error", "Max retries reached")
          /\ ~HasNotice(out, "error", "An error occurred while processing")
          /\ pc \in {"call", "row", "file", "done"}
          /\ file_status \in {"running", "finished"}

C1_Witness == JustExhausted /\ attempts = 7 /\ waited > 0

\* C2: when a call gives up, the Orchestrator is at the next call of the same row
\* (same located row, next metric), or past the row's last call at the next row of
\* the file, or past the last row at the regular end of the file; and every call,
\* whatever happened before, starts its attempts with retry_count = 0.
C2_ExhaustionDoesNotStopLaterCalls ==
    [][ /\ (pc = "attempt" /\ call_status' = "exhausted") =>
              IF call_idx < Len(CellCalls(update_type, target_columns))
              THEN /\ pc' = "call"
                   /\ call_idx' = call_idx + 1
                   /\ row_idx' = row_idx
                   /\ camp_row_index' = camp_row_index
                   /\ file_idx' = file_idx
              ELSE IF row_idx < Len(connects_target_df)
              THEN /\ pc' = "row"
                   /\ row_idx' = row_idx + 1
                   /\ file_idx' = file_idx
              ELSE /\ file_status' = "finished"
                   /\ file_idx' = file_idx + 1
        /\ pc = "call" =>
              /\ pc' = "attempt"
              /\ retry_count' = 0
              /\ attempts' = 0
              /\ calls_in_file' = calls_in_file + 1
              /\ call_idx' = call_idx
      ]_vars

\* a call that gave up, with the next call of the same row about to start
C2_Witness == JustExhausted /\ pc = "call" /\ call_idx > 1

\* C3: an answer that is an error other than 429 ends the call at once, whatever
\* the number of rate-limit retries before it: nothing is slept, retry_count does
\* not move, no rate-limit notice is shown, the call stands as raised, and control
\* is no longer in the call (no further attempt for the cell).
C3_OtherErrorsPropagateImmediately ==
    [][ (pc = "attempt" /\ resp' \notin {200, 429}) =>
            /\ call_status' = "raised"
            /\ attempts' = attempts + 1
            /\ waited' = waited
            /\ retry_count' = retry_count
            /\ written' = written
            /\ ~HasNotice(out', "warning", "Rate limit hit")
            /\ pc' \in {"file", "done"}
      ]_vars

C3_Witness == resp = 500 /\ call_status = "raised" /\ retry_count = 6 /\ waited > 0

----------------------------------------------------------------------------
(* Properties of the Orchestrator *)

\* the step about to be taken raises an exception inside the try block of the
\* current file: the aggregator fails, the Alias Resolver fails, or update_cell is
\* answered with an error that is no rate limit
RaisesInFile ==
    \/ pc = "file" /\ Aggregate(update_type, CurrentFile).raised
    \/ pc = "row" /\ RowLocator(data, settings_df, CurrentRow["Camp"]).raised
    \/ pc = "attempt" /\ resp' \notin {200, 429}

\* C4: an exception raised while a file is processed ends that file at once (no
\* further row, call or write of it: the loop stands at the next file, or at the
\* end after the last file), is shown as an error naming that file, and leaves the
\* cells written so far as they are; the next file, if any, is then started; and no
\* step ever takes a written cell back.
C4_FileErrorIsolated ==
    [][ /\ RaisesInFile =>
              /\ file_status' = "error"
              /\ \E i \in DOMAIN out' :
                    /\ out'[i].level = "error"
                    /\ out'[i].msg = "An error occurred while processing"
                    /\ out'[i].text = uploaded_files[file_idx].name
              /\ written' = written
              /\ calls_in_file' = IF pc = "file" THEN 0 ELSE calls_in_file
              /\ file_idx' = file_idx + 1
              /\ pc' = IF file_idx < Len(uploaded_files) THEN "file" ELSE "done"
        /\ pc = "file" =>
              /\ file_idx \in DOMAIN uploaded_files
              /\ out'[1] = Notice("write", "Processing file", 0,
                                  uploaded_files[file_idx].name)
        /\ \A cell \in DOMAIN written : cell \in DOMAIN written'
      ]_vars

\* a remote error in the first of two files, after cells of it were written, with
\* the second file about to be processed
C4_Witness ==
    /\ file_status = "error"
    /\ call_status = "raised"
    /\ resp = 500
    /\ pc = "file"
    /\ file_idx = 2
    /\ calls_in_file > 1
    /\ written # <<>>

\* some metric column of the selected mode has no occurrence for the selected day
\* in the sheet's header row
ColumnUnresolved ==
    \E i \in DOMAIN UpdateColumns(update_type) :
        get_column_index(Text(UpdateColumns(update_type)[i]), day_index, worksheet[2])
            = None

\* C5: in a run where a metric column of the mode is not found, no safe_update_cell
\* call is ever made and no cell is written; each file ends in StartFile with an
\* error notice (the invalid-day error when its aggregation succeeded), and the
\* loop goes on to the next file until all files are done.
C5_UnresolvedColumnMeansNoWrites ==
    (pc \notin {"ready", "crashed"} /\ uploaded_files # <<>> /\ ColumnUnresolved) =>
        /\ calls_in_file = 0
        /\ written = <<>>
        /\ call_status = "none"
        /\ pc \in {"file", "done"}
        /\ pc = "file" => file_idx \in DOMAIN uploaded_files
        /\ pc = "done" => file_idx = Len(uploaded_files) + 1
        /\ file_idx > 1 =>
              IF Aggregate(update_type, uploaded_files[file_idx - 1]).raised
              THEN /\ file_status = "error"
                   /\ HasNotice(out, "error", "An error occurred while processing")
              ELSE /\ file_status = "invalid day"
                   /\ HasNotice(out, "error", "Invalid day index")

\* a file given up for an unresolved column although another column of the mode
\* was found, with the next file about to be processed
C5_Witness ==
    /\ file_status = "invalid day"
    /\ pc = "file"
    /\ file_idx = 2
    /\ \E col \in DOMAIN target_columns : target_columns[col] # None
    /\ \E col \in DOMAIN target_columns : target_columns[col] = None

\* the rows of the loaded sheet whose trimmed first cell is name
RowsNamed(name) == {j \in DOMAIN data : Strip(data[j][1]) = name}

\* no row bears the campaign's name, the Alias Resolver returns a list, and no row
\* bears any name of that list
CampaignNotFound(camp_name) ==
    LET found == find_alternate_campaign_name_with_new_structure(settings_df, camp_name)
    IN  /\ RowsNamed(camp_name) = {}
        /\ ~found.raised
        /\ \A k \in DOMAIN found.names : RowsNamed(found.names[k]) = {}

----------------------------------------------------------------------------
(* Properties of the functions applied on their own *)

Min(S) == CHOOSE x \in S : \A y \in S : x <= y

\* the rows of a sheet whose trimmed first cell is name
NamedRows(rows, name) == {j \in DOMAIN rows : Strip(rows[j][1]) = name}

\* C7: the Row Locator returns the smallest 1-based index of a row whose trimmed
\* first cell is the campaign name; only when there is none it takes the Alias
\* Resolver's list, and returns the smallest index of a row bearing the first name
\* of that list that any row bears (that row's trimmed first cell is the alias it
\* reports), or nothing when no name of the list is borne by a row; it never
\* returns more than one index, and when the resolver fails so does the locator.
C7_RowLocatorFirstMatch ==
    pc = "returned" =>
        LET rows    == arg.data
            exact   == NamedRows(rows, arg.camp_name)
            aliases == find_alternate_campaign_name_with_new_structure(
                           arg.settings_df, arg.camp_name)
            hits    == {k \in DOMAIN aliases.names :
                           NamedRows(rows, aliases.names[k]) # {}}
        IN  /\ ret.index \in DOMAIN rows \cup {None}
            /\ IF exact # {}
               THEN ret.index = Min(exact) /\ ret.via = "exact" /\ ~ret.raised
               ELSE IF aliases.raised
               THEN ret.raised /\ ret.index = None
               ELSE IF hits = {}
               THEN ret.index = None /\ ret.via = "none" /\ ~ret.raised
               ELSE /\ ret.index = Min(NamedRows(rows, aliases.names[Min(hits)]))
                    /\ ret.alt = aliases.names[Min(hits)]
                    /\ Strip(rows[ret.index][1]) = ret.alt
                    /\ ret.via = "alias"
                    /\ ~ret.raised

\* found through the second alias of the list, borne by two rows of which the
\* first is returned
C7_Witness ==
    /\ pc = "returned"
    /\ ret.via = "alias"
    /\ ret.index = 2
    /\ ret.alt = AcmeInc
    /\ arg.camp_name = Acme
    /\ Cardinality(NamedRows(arg.data, AcmeInc)) = 2

\* the values of src that are not NaN and not in excluded, without repetition, in
\* the order of their first occurrence in src
IsOrderedDedup(res, src, excluded) ==
    /\ {res[i] : i \in DOMAIN res} = {src[i] : i \in DOMAIN src} \ ({NaN} \cup excluded)
    /\ \A i, j \in DOMAIN res : i # j => res[i] # res[j]
    /\ \A i, j \in DOMAIN res :
          i < j => Min({k \in DOMAIN src : src[k] = res[i]})
                     < Min({k \in DOMAIN src : src[k] = res[j]})

\* C8: the Alias Resolver returns (1) for a name in the canonical column, the
\* non-null values of the other columns of the first row bearing it there,
\* deduplicated in order; (2) else, for the leftmost other column holding the name,
\* the non-null values of all columns of the first row holding it there,
\* deduplicated in order, without the name; (3) else the empty list.  On the row
\* [Acme, Acme Corp, ACME INC], Acme Corp gives [Acme, ACME INC] and Acme gives
\* [Acme Corp, ACME INC].
C8_AliasResolver ==
    pc = "returned" =>
        LET t       == arg.settings_df.rows
            name    == arg.campaign_name
            inCol(c) == {r \in DOMAIN t : t[r][c] = name}
            others  == {c \in 2..3 : inCol(c) # {}}
        IN  /\ ~ret.raised
            /\ IF inCol(1) # {}
               THEN IsOrderedDedup(ret.names, Tail(t[Min(inCol(1))]), {})
               ELSE IF others # {}
               THEN IsOrderedDedup(ret.names, t[Min(inCol(Min(others)))], {name})
               ELSE ret.names = <<>>
            /\ (t = ExampleTable /\ name = AcmeCorp) => ret.names = <<Acme, AcmeInc>>
            /\ (t = ExampleTable /\ name = Acme) => ret.names = <<AcmeCorp, AcmeInc>>

\* the name is found in the third column only, in the second row of the table, whose
\* canonical name is returned once
C8_Witness ==
    /\ pc = "returned"
    /\ arg.campaign_name = AcmeCorp
    /\ arg.settings_df.rows = << <<Acme, Acme, NaN>>, <<Acme, Acme, AcmeCorp>> >>
    /\ ret.names = <<Acme>>

\* C9: for a day index >= 0, get_column_index returns the 1-based position of the
\* (index+1)-th header cell, from the left, whose trimmed text is the label when
\* the header has more than index such cells, and None otherwise.  On
\* [Calls, CTC, Calls, CTC] and Calls, index 1 gives 3 and index 2 gives None.
C9_ColumnLocator ==
    pc = "returned" =>
        LET cells == {i \in DOMAIN arg.header_row : Strip(arg.header_row[i]) = arg.label}
        IN  /\ IF arg.index < Cardinality(cells)
               THEN /\ ret \in cells
                    /\ Cardinality({i \in cells : i < ret}) = arg.index
               ELSE ret = None
            /\ ( /\ arg.header_row = << <<"Calls">>, <<"CTC">>, <<"Calls">>, <<"CTC">> >>
                 /\ arg.label = <<"Calls">> )
               => /\ arg.index = 1 => ret = 3
                  /\ arg.index = 2 => ret = None

\* the second occurrence of a label whose cells are padded
C9_Witness ==
    /\ pc = "returned"
    /\ arg.header_row = << <<"CTC">>, <<" ", "Calls", " ">>, <<>>, <<" ", "Calls", " ">> >>
    /\ arg.label = <<"Calls">>
    /\ arg.index = 1
    /\ ret = 4

IsDigit(tok) == \E d \in 0..9 : Digit(d) = tok

DigitValue(tok) == CHOOSE d \in 0..9 : Digit(d) = tok

\* the number a string of decimal digits denotes
RECURSIVE NumberOf(_)
NumberOf(digits) ==
    IF digits = <<>> THEN 0
    ELSE 10 * NumberOf(SubSeq(digits, 1, Len(digits) - 1)) + DigitValue(digits[Len(digits)])

\* C10: for s >= 0, seconds_to_hms(s) reads HH:MM:SS, with HH of two or more
\* digits (no zero in front of a third digit) denoting s div 3600, never taken
\* modulo 24, MM of two digits denoting (s mod 3600) div 60, SS of two digits
\* denoting s mod 60, both in 0..59, and HH*3600 + MM*60 + SS = s; 3661 gives
\* 01:01:01 and 90000 gives 25:00:00.
C10_DurationFormat ==
    pc = "returned" =>
        LET n  == Len(ret)
            hh == SubSeq(ret, 1, n - 6)
            mm == SubSeq(ret, n - 4, n - 3)
            ss == SubSeq(ret, n - 1, n)
        IN  /\ n >= 8
            /\ ret[n - 2] = ":" /\ ret[n - 5] = ":"
            /\ \A i \in DOMAIN ret : i \notin {n - 2, n - 5} => IsDigit(ret[i])
            /\ Len(hh) > 2 => hh[1] # "0"
            /\ NumberOf(hh) = arg \div 3600
            /\ NumberOf(mm) = (arg % 3600) \div 60
            /\ NumberOf(ss) = arg % 60
            /\ NumberOf(mm) \in 0..59 /\ NumberOf(ss) \in 0..59
            /\ NumberOf(hh) * 3600 + NumberOf(mm) * 60 + NumberOf(ss) = arg
            /\ arg = 3661 => ret = <<"0", "1", ":", "0", "1", ":", "0", "1">>
            /\ arg = 90000 => ret = <<"2", "5", ":", "0", "0", ":", "0", "0">>

\* more than a day of seconds
C10_Witness ==
    /\ pc = "returned"
    /\ arg = 90000
    /\ ret = <<"2", "5", ":", "0", "0", ":", "0", "0">>

----------------------------------------------------------------------------
(* Properties of the Aggregators *)

\* the positions of the input rows of campaign c
RowsOf(rows, by, c) == {i \in DOMAIN rows : rows[i][by] = c}

\* the sum of column col over the input rows at the positions I
RECURSIVE SumOver(_, _, _)
SumOver(rows, I, col) ==
    IF I = {} THEN 0
    ELSE LET i == CHOOSE x \in I : TRUE
         IN  rows[i][col] + SumOver(rows, I \ {i}, col)

\* C11: the CTC-mode aggregation of a file with the five report columns has exactly
\* one row per distinct non-null campaign of the input and no other row; for a
\* campaign found in N input rows its Calls, Connects and Abandoned are the sums of
\* the N input values, and its CTC is exactly the sum of the N calls-to-connect
\* values divided by N.
C11_CtcAggregation ==
    (pc = "returned" /\ arg.type = "CTC" /\ CtcColumns \subseteq arg.file.columns) =>
        LET rows  == arg.file.rows
            camps == {rows[i]["Campaign"] : i \in DOMAIN rows} \ {NaN}
        IN  /\ ~ret.raised
            /\ Len(ret.df) = Cardinality(camps)
            /\ \A k \in DOMAIN ret.df : ret.df[k].Camp \in camps
            /\ \A c \in camps :
                  LET I == RowsOf(rows, "Campaign", c)
                      N == Cardinality(I)
                  IN  /\ Cardinality({k \in DOMAIN ret.df : ret.df[k].Camp = c}) = 1
                      /\ \A k \in DOMAIN ret.df : ret.df[k].Camp = c =>
                            /\ ret.df[k].Calls = SumOver(rows, I, "Calls")
                            /\ ret.df[k].Connects = SumOver(rows, I, "Connects")
                            /\ ret.df[k].Abandoned = SumOver(rows, I, "Abandoned")
                            /\ ret.df[k].CTC.den > 0
                            /\ ret.df[k].CTC.num * N
                                  = ret.df[k].CTC.den * SumOver(rows, I, "Calls to Connect")

\* a campaign of three rows, one of another campaign between them, whose mean
\* calls-to-connect is no whole number
C11_Witness ==
    /\ pc = "returned"
    /\ arg.type = "CTC"
    /\ CtcColumns \subseteq arg.file.columns
    /\ Len(arg.file.rows) = 3
    /\ arg.file.rows[1]["Campaign"] = Acme
    /\ arg.file.rows[2]["Campaign"] = Beta
    /\ arg.file.rows[3]["Campaign"] = Acme
    /\ ~ret.raised
    /\ \E k \in DOMAIN ret.df :
          ret.df[k].Camp = Acme /\ ret.df[k].CTC = [num |-> 3, den |-> 2]
             /\ ret.df[k].Calls = 3

\* the file without the rows that dropna removes in the mode
WithoutNullRows(type, file) ==
    [file EXCEPT !.rows =
        SelectSeq(file.rows,
            LAMBDA r : IF type = "CTC" THEN r["Campaign"] # NaN
                       ELSE /\ r["Current campaign"] # NaN
                            /\ r["Recording Length (Seconds)"].k # "nan")]

\* the file has the columns the mode's aggregator reads
HasModeColumns(type, file) ==
    IF type = "CTC" THEN CtcColumns \subseteq file.columns
    ELSE LogColumns \subseteq file.columns

\* C12: in both modes no output row has a null Camp, and the output is the one the
\* file gives without its null-campaign rows (in Log-type: without its rows of null
\* campaign or null recording length), so a dropped row contributes to no sum, mean
\* or count; in Log-type every campaign with remaining rows has one output row whose
\* Logged Calls is the number of its remaining rows and whose
\* Recording_Length_Seconds is the sum of their seconds.
C12_NullRowsDropped ==
    (pc = "returned" /\ HasModeColumns(arg.type, arg.file) /\ ~ret.raised) =>
        LET rest == WithoutNullRows(arg.type, arg.file).rows
        IN  /\ \A k \in DOMAIN ret.df : ret.df[k]["Camp"] # NaN
            /\ ret = Aggregate(arg.type, WithoutNullRows(arg.type, arg.file))
            /\ arg.type = "Log type" =>
                  LET secs == [i \in DOMAIN rest |->
                                  ("seconds" :> rest[i]["Recording Length (Seconds)"].v)]
                  IN  /\ {ret.df[k]["Camp"] : k \in DOMAIN ret.df}
                            = {rest[i]["Current campaign"] : i \in DOMAIN rest}
                      /\ \A k \in DOMAIN ret.df :
                            LET I == RowsOf(rest, "Current campaign", ret.df[k]["Camp"])
                            IN  /\ ret.df[k]["Logged Calls"] = Cardinality(I)
                                /\ ret.df[k]["Recording_Length_Seconds"]
                                      = SumOver(secs, I, "seconds")
                      /\ \A j, k \in DOMAIN ret.df :
                            ret.df[j]["Camp"] = ret.df[k]["Camp"] => j = k

\* a Log-type file of a row without recording length, a row without campaign and one
\* remaining row
C12_Witness ==
    /\ pc = "returned"
    /\ arg.type = "Log type"
    /\ LogColumns \subseteq arg.file.columns
    /\ arg.file.rows = << LogRow(Acme, "nan", 0), LogRow(NaN, "int", 3600),
                          LogRow(Acme, "int", 61) >>
    /\ ~ret.raised
    /\ Len(ret.df) = 1
    /\ ret.df[1]["Logged Calls"] = 1
    /\ ret.df[1]["Recording_Length_Seconds"] = 61

----------------------------------------------------------------------------
(* Properties of the whole run *)

\* C13: without the credentials in the environment a run over uploaded files ends in
\* the uncaught error of get_google_sheet_client (without uploaded files Execute does
\* nothing at all); no sheet data has been read, no file aggregated or given a status,
\* no update attempted, no cell written, and no per-file error notice shown.
C13_MissingCredentialsAbort ==
    ~credentials =>
        /\ pc \in {"ready", "crashed", "done"}
        /\ pc = "done" => uploaded_files = <<>>
        /\ data = <<>> /\ header_row = <<>> /\ settings_df.rows = <<>>
        /\ file_idx = 0 /\ file_status = "none" /\ connects_target_df = <<>>
        /\ calls_in_file = 0 /\ attempts = 0 /\ written = <<>>
        /\ out = <<>>

\* two files were uploaded, the sheet is readable, and the run ended in the error
C13_Witness ==
    /\ ~credentials
    /\ pc = "crashed"
    /\ Len(uploaded_files) = 2
    /\ Len(worksheet) >= 2
    /\ settings_data.rows # <<>>

\* the waits of one safe_update_cell call, in seconds
BackoffSchedule == <<2, 4, 8, 16, 32, 64, 128>>

\* the rate-limit notices among the notices of a step
RateLimitNotices(notices) ==
    SelectSeq(notices, LAMBDA n : n.level = "warning" /\ n.msg = "Rate limit hit")

\* C14: when update_cell has just been answered with a rate limit for the k-th time in
\* a call, k is between 1 and 7, every earlier request of the call was answered so too
\* (the count is never reset), the step shows exactly one rate-limit notice, naming a
\* wait of 2^k seconds, and the call has slept 2 + 4 + ... + 2^k seconds in all, so
\* the k-th wait is 2^k, longer than the one before; no call ever sleeps more than 254
\* seconds.
C14_ExponentialBackoff ==
    /\ waited <= 254
    /\ resp = 429 =>
          LET k == retry_count
          IN  /\ k \in 1..7
              /\ k = attempts
              /\ Len(RateLimitNotices(out)) = 1
              /\ RateLimitNotices(out)[1].n = BackoffSchedule[k]
              /\ BackoffSchedule[k] = 2 ^ k
              /\ waited = Sum(SubSeq(BackoffSchedule, 1, k))
              /\ k > 1 => BackoffSchedule[k] > BackoffSchedule[k - 1]

\* the seventh rate limit of a call: a wait of 128 seconds, 254 seconds in all
C14_Witness ==
    /\ resp = 429
    /\ retry_count = 7
    /\ waited = 254
    /\ RateLimitNotices(out) = <<Notice("warning", "Rate limit hit", 128, <<>>)>>

\* the metric columns of a mode, in the order their cells are updated
MetricOrder(type) ==
    IF type = "CTC" THEN <<"Calls", "Connects", "CTC", "Abandoned">>
    ELSE <<"Logged Calls", "Dial Time">>

\* the report row at position q has a target row in the sheet
Located(q) == RowLocator(data, settings_df, connects_target_df[q]["Camp"]).index # None

\* the located report rows before position r
LocatedBefore(r) == Cardinality({q \in 1..(r - 1) : Located(q)})

\* the positions of a run are in order: the calls of a row by metric, the rows of a
\* file by position, the files by upload position
InOrder ==
    LET n == Len(MetricOrder(update_type))
    IN  /\ pc \in {"call", "attempt"} =>
              /\ file_idx \in DOMAIN uploaded_files
              /\ connects_target_df = Aggregate(update_type, CurrentFile).df
              /\ row_idx \in DOMAIN connects_target_df
              /\ Located(row_idx)
              /\ camp_row_index
                    = RowLocator(data, settings_df, CurrentRow["Camp"]).index
              /\ call_idx \in 1..n
              /\ calls_in_file = n * LocatedBefore(row_idx)
                                   + (IF pc = "attempt" THEN call_idx ELSE call_idx - 1)
        /\ pc = "attempt" =>
              /\ CallColumn = MetricOrder(update_type)[call_idx]
              /\ CallCell[1] = camp_row_index
        /\ pc = "row" => calls_in_file = n * LocatedBefore(row_idx)
        /\ file_status = "finished" =>
              calls_in_file = n * LocatedBefore(Len(connects_target_df) + 1)

\* a step never goes back: to an earlier file, to an earlier row of the file, or to
\* an earlier call or another target row within a report row
StepsForward ==
    /\ file_idx' \in {file_idx, file_idx + 1}
    /\ (pc \in {"row", "call", "attempt"} /\ file_idx' = file_idx) =>
          row_idx' \in {row_idx, row_idx + 1}
    /\ (pc \in {"call", "attempt"} /\ pc' \in {"call", "attempt"}) =>
          /\ row_idx' = row_idx
          /\ camp_row_index' = camp_row_index
          /\ call_idx' \in {call_idx, call_idx + 1}
    /\ calls_in_file' \in {0, calls_in_file, calls_in_file + 1}

\* C15: a located report row gets one safe_update_cell call per metric column, in the
\* order Calls, Connects, CTC, Abandoned (CTC) or Logged Calls, Dial Time (Log-type),
\* every one on the row index located for it; the number of calls made in a file is
\* always the number of metrics times the located rows already done plus the calls
\* of the current row, so no call is left out, repeated or made out of turn; and the
\* run only moves forward through calls, rows and files.
C15_OneCallPerMetricInOrder == [](InOrder) /\ [][StepsForward]_vars

\* the last call of the second located row of the second uploaded file, Log-type
C15_Witness ==
    /\ pc = "attempt"
    /\ update_type = "Log type"
    /\ file_idx = 2
    /\ row_idx = 2
    /\ call_idx = 2
    /\ CallColumn = "Dial Time"
    /\ calls_in_file = 4

\* the columns of header row 2 that are the selected day's occurrence of a label
DayColumns(label) ==
    {c \in DOMAIN data[2] :
        /\ Strip(data[2][c]) = Text(label)
        /\ Cardinality({d \in 1..(c - 1) : Strip(data[2][d]) = Text(label)}) = day_index}

\* the campaign name of a report row and the aliases the resolver returns for it
NamesOf(camp_name) ==
    LET found == find_alternate_campaign_name_with_new_structure(settings_df, camp_name)
    IN  {camp_name}
        \cup (IF found.raised THEN {} ELSE {found.names[i] : i \in DOMAIN found.names})

\* cell is a cell the current report row may be written to for the metric label
IsTargetCell(cell, label) ==
    /\ label \in {MetricOrder(update_type)[i] : i \in DOMAIN MetricOrder(update_type)}
    /\ cell[2] \in DayColumns(label)
    /\ cell[1] \in DOMAIN data
    /\ cell[1] = RowLocator(data, settings_df, CurrentRow["Camp"]).index
    /\ \E name \in NamesOf(CurrentRow["Camp"]) : cell[1] \in RowsNamed(name)

\* a step that changes the sheet is an update_cell request, and it sets one target
\* cell of the current report row and leaves every other cell as it was
WritesTargetOnly ==
    written' # written =>
        /\ pc = "attempt"
        /\ \E cell \in DOMAIN written' :
              /\ IsTargetCell(cell, CallColumn)
              /\ DOMAIN written' = DOMAIN written \cup {cell}
              /\ \A other \in DOMAIN written \ {cell} : written'[other] = written[other]

\* C16: every update_cell request is for the cell whose column is the selected day's
\* occurrence, in header row 2, of the metric label of the call (a label of the
\* selected mode) and whose row is the index the Row Locator gave for the current
\* report row, a row whose trimmed first cell is the campaign name or one of the
\* aliases the resolver returns for it; and a step changes no other cell.
C16_OnlyTargetCellsWritten ==
    [](pc = "attempt" => IsTargetCell(CallCell, CallColumn)) /\ [][WritesTargetOnly]_vars

\* a cell of the second day was written to a row found under an alias, and the next
\* call of that row is under way
C16_Witness ==
    /\ pc = "attempt"
    /\ day_index = 1
    /\ call_idx = 2
    /\ RowLocator(data, settings_df, CurrentRow["Camp"]).via = "alias"
    /\ <<camp_row_index, target_columns[MetricOrder(update_type)[1]]>> \in DOMAIN written
    /\ Strip(data[camp_row_index][1]) # CurrentRow["Camp"]

\* the success notices among the notices of a step
SuccessNotices(notices) ==
    SelectSeq(notices, LAMBDA n : n.level = "success" /\ n.msg = "Updated")

\* the last step was the answer to an update_cell request that ended the last call of
\* a report row without an exception: the call returned after a write or gave up
RowJustCompleted ==
    /\ pc \notin {"call", "attempt"}
    /\ resp \in {200, 429}
    /\ call_status \in {"returned", "exhausted"}

\* C17: the step that ends the last call of a located row without an exception shows
\* the notice "Updated <campaign>" of that row, once, whether the call wrote its cell
\* or gave up after the retries (then next to the max-retries error), and no other
\* step shows a success notice; what was written plays no part.
C17_SuccessNoticeDespiteGiveUp ==
    /\ RowJustCompleted <=> SuccessNotices(out) # <<>>
    /\ RowJustCompleted =>
          /\ SuccessNotices(out)
                = <<Notice("success", "Updated", 0, connects_target_df[row_idx - 1]["Camp"])>>
          /\ call_status = "exhausted" <=> HasNotice(out, "error", "Max retries reached")

\* a CTC row all of whose four calls gave up: nothing was written in the run, and the
\* step shows the max-retries error and the success notice together
C17_Witness ==
    /\ RowJustCompleted
    /\ update_type = "CTC"
    /\ calls_in_file = 4
    /\ written = <<>>
    /\ HasNotice(out, "error", "Max retries reached")
    /\ HasNotice(out, "success", "Updated")

\* the run is over: the file loop has ended, or the run died of an uncaught exception
Terminated == pc \in {"done", "crashed"}

\* the update_cell requests of a call, the calls of a file and the files of a run
\* are within their limits
WithinLimits ==
    /\ attempts <= 7
    /\ calls_in_file
          <= Len(connects_target_df) * Len(MetricOrder(update_type))
    /\ pc = "attempt" => attempts < 7
    /\ file_idx <= Len(uploaded_files) + 1
    /\ (pc \in {"file", "row", "call", "attempt"}) => file_idx \in DOMAIN uploaded_files
    /\ file_status \in {"finished", "invalid day", "error"} => pc \in {"file", "done"}
    /\ pc = "done" /\ uploaded_files # <<>> =>
          /\ file_status \in {"finished", "invalid day", "error"}
          /\ file_idx = Len(uploaded_files) + 1

\* C18: whatever the answers to the update_cell requests, a call never makes more
\* than 7 of them and is over after the seventh, a file never makes more calls than
\* report rows times metric columns (hence at most 7 times as many requests), every
\* file that was started ends finished or aborted, and the run comes to its end.
C18_RunTerminates == [](WithinLimits) /\ <>(Terminated)

\* the run ended after a file whose every call used up its seven requests
C18_Witness ==
    /\ pc = "done"
    /\ file_status = "finished"
    /\ attempts = 7
    /\ calls_in_file = Len(connects_target_df) * Len(MetricOrder(update_type))
    /\ calls_in_file >= 4
    /\ written = <<>>

====
